---- MODULE Spec2Model ----
(***************************************************************************)
(* The flattening pass of src/flatten.rs: Flattener::flatten_program,      *)
(* flatten_expression, flatten_condition and use_variable, over the        *)
(* abstract syntax of absy (Expression, Condition, Statement, Prog) and a  *)
(* prime field.                                                            *)
(***************************************************************************)
EXTENDS Integers, Sequences, FiniteSets, TLC

\* ------------------------------------------------------------------ bounds

\* Largest bit-width a Flattener is constructed with.
MaxBits == 4
\* Longest input program (statements) of the program specification.
MaxStmts == 4
\* Number of flatten_program calls made on one instance.
MaxCalls == 2
\* Largest Pow exponent of the gadget programs.
MaxExp == 5

\* ------------------------------------------------------------------- field

\* The modulus of the prime field T (field::Field).
FieldPrime == 17

Field == 0 .. (FieldPrime - 1)

FAdd(a, b) == (a + b) % FieldPrime

FSub(a, b) == (a + FieldPrime - b) % FieldPrime

FMul(a, b) == (a * b) % FieldPrime

RECURSIVE FPow(_, _)
FPow(a, n) == IF n = 0 THEN 1 % FieldPrime ELSE FMul(a, FPow(a, n - 1))

FInv(a) == CHOOSE x \in Field : FMul(a, x) = 1

FDiv(a, b) == FMul(a, FInv(b))

\* --------------------------------------------------------- abstract syntax

NumberLiteral(v) == [t |-> "NumberLiteral", v |-> v]

VariableReference(n) == [t |-> "VariableReference", n |-> n]

Add(l, r) == [t |-> "Add", l |-> l, r |-> r]

Sub(l, r) == [t |-> "Sub", l |-> l, r |-> r]

Mult(l, r) == [t |-> "Mult", l |-> l, r |-> r]

Div(l, r) == [t |-> "Div", l |-> l, r |-> r]

Pow(l, r) == [t |-> "Pow", l |-> l, r |-> r]

IfElse(c, l, r) == [t |-> "IfElse", c |-> c, l |-> l, r |-> r]

\* Condition: Lt, Le, Eq, Ge, Gt
Cond(k, l, r) == [t |-> k, l |-> l, r |-> r]

Return(e) == [t |-> "Return", e |-> e]

Definition(id, e) == [t |-> "Definition", id |-> id, e |-> e]

Condition(l, r) == [t |-> "Condition", l |-> l, r |-> r]

Compiler(id, e) == [t |-> "Compiler", id |-> id, e |-> e]

BinaryOps == {"Add", "Sub", "Mult", "Div"}

IsLeaf(e) == e.t \in {"NumberLiteral", "VariableReference"}

\* Expression::is_linear: a literal, a variable, a sum or difference of
\* linear terms, or a product/quotient of two leaves not both variables.
RECURSIVE IsLinear(_)
IsLinear(e) ==
    CASE e.t \in {"NumberLiteral", "VariableReference"} -> TRUE
      [] e.t \in {"Add", "Sub"} -> IsLinear(e.l) /\ IsLinear(e.r)
      [] e.t \in {"Mult", "Div"} ->
            /\ IsLeaf(e.l) /\ IsLeaf(e.r)
            /\ (e.l.t = "NumberLiteral" \/ e.r.t = "NumberLiteral")
      [] OTHER -> FALSE

\* Expression::is_flattened: both operands of the node are linear.
IsFlattened(e) ==
    CASE e.t \in {"NumberLiteral", "VariableReference"} -> TRUE
      [] e.t \in BinaryOps -> IsLinear(e.l) /\ IsLinear(e.r)
      [] OTHER -> FALSE

\* The substitution table is a set of <<from, to>> pairs, one per key.
SubKeys(sub) == {p[1] : p \in sub}

SubGet(sub, k) == (CHOOSE p \in sub : p[1] = k)[2]

\* HashMap::insert
SubInsert(sub, k, v) == {p \in sub : p[1] # k} \cup {<<k, v>>}

\* A variable name followed through the table until no entry maps it.
RECURSIVE Resolve(_, _)
Resolve(sub, n) == IF n \in SubKeys(sub) THEN Resolve(sub, SubGet(sub, n)) ELSE n

\* Expression::apply_substitution / Condition::apply_substitution
RECURSIVE ApplySubstitution(_, _)
ApplySubstitution(e, sub) ==
    CASE e.t = "NumberLiteral" -> e
      [] e.t = "VariableReference" -> VariableReference(Resolve(sub, e.n))
      [] e.t = "IfElse" ->
            IfElse(Cond(e.c.t, ApplySubstitution(e.c.l, sub), ApplySubstitution(e.c.r, sub)),
                   ApplySubstitution(e.l, sub), ApplySubstitution(e.r, sub))
      [] OTHER -> [t |-> e.t, l |-> ApplySubstitution(e.l, sub), r |-> ApplySubstitution(e.r, sub)]

\* ------------------------------------------------------------------- state

VARIABLES
    bits,                 \* Flattener.bits
    variables,            \* Flattener.variables
    substitution,         \* Flattener.substitution
    next_var_idx,         \* Flattener.next_var_idx
    prog,                 \* the statements of the input program consumed so far
    statements_flattened, \* the local of flatten_program
    pc,                   \* "idle", "running", "returned" or "panicked"
    result,               \* <<>> or <<the returned Prog>>
    calls                 \* flatten_program calls begun on this instance

vars == <<bits, variables, substitution, next_var_idx, prog,
          statements_flattened, pc, result, calls>>

\* Prog.arguments of every input program.
Arguments == <<"a", "b">>

\* format!("sym_{}", self.next_var_idx)
Sym(i) == "sym_" \o ToString(i)

\* format!("{}_b{}", &cond_result, i)
BitName(cond_result, i) == cond_result \o "_b" \o ToString(i)

\* format!("{}_{}", &name, i)
Suffixed(name, i) == name \o "_" \o ToString(i)

\* The value threaded through the recursion: the statement vector, the
\* counter, the panic message ("" while running) and the expression returned.
Res(out, idx, panic, e) == [out |-> out, idx |-> idx, panic |-> panic, e |-> e]

Panic(out, idx, msg) == Res(out, idx, msg, NumberLiteral(0))

\* let new_name = format!("sym_{}", ..); next_var_idx += 1; push(Definition(new_name, e));
\* VariableReference(new_name)
Bind(f) ==
    Res(Append(f.out, Definition(Sym(f.idx), f.e)), f.idx + 1, f.panic,
        VariableReference(Sym(f.idx)))

\* An operand left inline whether affine or not.
NewOperandInline(f) == f

\* new_left / new_right of Add, Sub and Div
NewOperand(f) == IF IsLinear(f.e) THEN f ELSE Bind(f)

\* A Mult operand treated as those of Add, Sub and Div are.
NewMultOperandAsOthers(f) == IF IsLinear(f.e) THEN f ELSE Bind(f)

\* new_left / new_right of Mult
NewMultOperand(f) ==
    IF IsLinear(f.e)
    THEN IF f.e.t = "Sub" THEN Bind(f) ELSE f
    ELSE Bind(f)

\* The Equal gadget without its last constraint, (c-d)*w = 1.
EqStatementsNoInverse(name_c, name_d, name_1_d, name_c_d, name_w) ==
    << Compiler(name_d, IfElse(Cond("Eq", VariableReference(name_c), NumberLiteral(0)),
                               NumberLiteral(1), NumberLiteral(0))),
       Definition(name_1_d, Sub(NumberLiteral(1), VariableReference(name_d))),
       Definition(name_c_d, Sub(VariableReference(name_c), VariableReference(name_d))),
       Compiler(name_w, Div(NumberLiteral(1), VariableReference(name_c_d))),
       Condition(NumberLiteral(0), Mult(VariableReference(name_c), VariableReference(name_d))),
       Condition(NumberLiteral(0), Mult(VariableReference(name_d), VariableReference(name_1_d))),
       Condition(NumberLiteral(0), Mult(VariableReference(name_c), VariableReference(name_d))) >>

\* The statements of the Equal gadget after the Definition of c: the hint for
\* d, 1-d, c-d, the hint for w, and the three constraints.
EqStatements(name_c, name_d, name_1_d, name_c_d, name_w) ==
    << Compiler(name_d, IfElse(Cond("Eq", VariableReference(name_c), NumberLiteral(0)),
                               NumberLiteral(1), NumberLiteral(0))),
       Definition(name_1_d, Sub(NumberLiteral(1), VariableReference(name_d))),
       Definition(name_c_d, Sub(VariableReference(name_c), VariableReference(name_d))),
       Compiler(name_w, Div(NumberLiteral(1), VariableReference(name_c_d))),
       Condition(NumberLiteral(0), Mult(VariableReference(name_c), VariableReference(name_d))),
       Condition(NumberLiteral(0), Mult(VariableReference(name_d), VariableReference(name_1_d))),
       Condition(NumberLiteral(1), Mult(VariableReference(name_c_d), VariableReference(name_w))) >>

\* for i in 0..self.bits: push(Definition(b_i, Mult(b_i, b_i)))
BitDefinitions(cond_result) ==
    [i \in 1 .. bits |->
        Definition(BitName(cond_result, i - 1),
                   Mult(VariableReference(BitName(cond_result, i - 1)),
                        VariableReference(BitName(cond_result, i - 1))))]

\* for i in 1..self.bits/2 { expr = Add(expr, Add(Mult(b_2i, 2^i), Mult(b_2i+1, 2^i))) }
RECURSIVE BitSum(_, _, _)
BitSum(cond_result, i, expr) ==
    IF i >= bits \div 2 THEN expr
    ELSE BitSum(cond_result, i + 1,
            Add(expr,
                Add(Mult(VariableReference(BitName(cond_result, 2 * i)),
                         NumberLiteral(FPow(2, i))),
                    Mult(VariableReference(BitName(cond_result, 2 * i + 1)),
                         NumberLiteral(FPow(2, i))))))

\* The expression the diff symbol is redefined as.
Recomposition(cond_result) ==
    Add(Mult(VariableReference(BitName(cond_result, bits - 1)),
             NumberLiteral(FSub(0, FPow(2, bits - 1)))),
        BitSum(cond_result, 1,
               Add(VariableReference(BitName(cond_result, 0)),
                   Mult(VariableReference(BitName(cond_result, 1)), NumberLiteral(2 % FieldPrime)))))

RECURSIVE FlattenExpression(_, _, _)
RECURSIVE FlattenCondition(_, _, _)

\* The statements and the pair returned by the Condition::Lt arm, once both
\* sides are flattened with out the vector and idx the counter after them.
LtStatements(out, idx, lhs_e, rhs_e) ==
    LET lhs_name == Sym(idx)
        rhs_name == Sym(idx + 1)
        cond_result == Sym(idx + 2)
        cond_true == BitName(cond_result, bits - 1)
        cond_false == Sym(idx + 3)
    IN  Res(out
              \o << Definition(lhs_name, lhs_e),
                    Definition(rhs_name, rhs_e),
                    Definition(cond_result,
                               Sub(VariableReference(lhs_name),
                                   VariableReference(rhs_name))) >>
              \o BitDefinitions(cond_result)
              \o << Definition(cond_result, Recomposition(cond_result)),
                    Definition(cond_false,
                               Sub(NumberLiteral(1), VariableReference(cond_true))) >>,
            idx + 4, "",
            <<VariableReference(cond_true), VariableReference(cond_false)>>)

\* The Condition::Lt arm after its two calls of flatten_expression.
FlattenLt(lhs, rhs) ==
    IF lhs.panic # "" THEN lhs
    ELSE IF rhs.panic # "" THEN rhs
    ELSE LtStatements(rhs.out, rhs.idx, lhs.e, rhs.e)

\* The Condition::Eq arm after its call of flatten_expression on lhs - rhs;
\* idx is the counter the five names are taken from.
FlattenEq(idx, cf) ==
    IF cf.panic # "" THEN cf
    ELSE Res(cf.out
               \o << Definition(Sym(idx), cf.e) >>
               \o EqStatements(Sym(idx), Sym(idx + 1), Sym(idx + 2), Sym(idx + 3),
                               Sym(idx + 4)),
             cf.idx, "",
             <<VariableReference(Sym(idx + 1)), VariableReference(Sym(idx + 2))>>)

\* The right side of Condition::Lt is flattened after the left.
FlattenLtFrom(lhs, rhs_expr) ==
    FlattenLt(lhs, FlattenExpression(lhs.out, lhs.idx, rhs_expr))

\* Flattener::flatten_condition; the result's e is <<cond_true, cond_false>>.
FlattenCondition(out, idx, c) ==
    CASE c.t = "Lt" -> FlattenLtFrom(FlattenExpression(out, idx, c.l), c.r)
      [] c.t = "Eq" -> FlattenEq(idx, FlattenExpression(out, idx + 5, Sub(c.l, c.r)))
      [] OTHER -> Panic(out, idx, "not yet implemented")

\* An exponent guard that lets the literal 1 through.
ExponentAboveZero(exponent) == exponent.t = "NumberLiteral" /\ exponent.v > 0

\* box NumberLiteral(ref x) if x > &T::one()
ExponentAboveOne(exponent) == exponent.t = "NumberLiteral" /\ exponent.v > 1

\* The Pow arm of flatten_expression.
FlattenPow(out, idx, base, exponent) ==
    IF ExponentAboveOne(exponent)
    THEN CASE base.t = "VariableReference" ->
                IF exponent.v > 2
                THEN LET tmp == FlattenExpression(out, idx,
                                    Pow(VariableReference(base.n),
                                        NumberLiteral(FSub(exponent.v, 1))))
                         b == Bind(tmp)
                     IN  IF tmp.panic # "" THEN tmp
                         ELSE Res(b.out, b.idx, "", Mult(b.e, VariableReference(base.n)))
                ELSE Res(out, idx, "",
                         Mult(VariableReference(base.n), VariableReference(base.n)))
           [] base.t = "NumberLiteral" ->
                Res(out, idx, "", Mult(NumberLiteral(base.v), NumberLiteral(base.v)))
           [] OTHER -> Panic(out, idx, "Only variables and numbers allowed in pow base")
    ELSE Panic(out, idx, "Expected number > 1 as pow exponent")

\* new_left / new_right, by the arm: Mult has its own test.
NewOperandOf(t, f) == IF t = "Mult" THEN NewMultOperand(f) ELSE NewOperand(f)

\* The rest of an arm once new_left is made: new_right, then the node returned.
WithNewLeft(t, new_left, right_e) ==
    LET new_right == NewOperandOf(t, Res(new_left.out, new_left.idx, "", right_e))
    IN  Res(new_right.out, new_right.idx, "",
            [t |-> t, l |-> new_left.e, r |-> new_right.e])

\* The rest of an arm once both operands are flattened: new_left is made
\* after the statements of both.
WithOperands(t, left, right) ==
    IF right.panic # "" THEN right
    ELSE WithNewLeft(t, NewOperandOf(t, Res(right.out, right.idx, "", left.e)), right.e)

\* The rest of an arm once the left operand is flattened.
WithLeft(e, left) ==
    IF left.panic # "" THEN left
    ELSE WithOperands(e.t, left, FlattenExpression(left.out, left.idx, e.r))

\* The Add, Sub, Mult and Div arms of flatten_expression.
FlattenBinary(out, idx, e) == WithLeft(e, FlattenExpression(out, idx, e.l))

\* Flattener::flatten_expression
FlattenExpression(out, idx, e) ==
    CASE IsLeaf(e) -> Res(out, idx, "", e)
      [] e.t \in BinaryOps /\ IsFlattened(e) -> Res(out, idx, "", e)
      [] e.t \in BinaryOps /\ ~IsFlattened(e) -> FlattenBinary(out, idx, e)
      [] e.t = "Pow" -> FlattenPow(out, idx, e.l, e.r)
      [] e.t = "IfElse" ->
            LET c == FlattenCondition(out, idx, e.c)
            IN  IF c.panic # "" THEN c
                ELSE FlattenExpression(c.out, c.idx,
                        Add(Mult(c.e[1], e.l), Mult(c.e[2], e.r)))

\* The loop of use_variable: the first candidate name, name_0, name_1, ...
\* that is not in the used-name set, with the count of suffixes tried.
RECURSIVE Probe(_, _, _, _)
Probe(used, name, new_name, i) ==
    IF new_name \in used
    THEN Probe(used, name, Suffixed(name, i), i + 1)
    ELSE [name |-> new_name, i |-> i]

\* Flattener::use_variable: the name returned and the two collections after.
UseVariable(used, sub, name) ==
    LET p == Probe(used, name, name, 0)
    IN  [name |-> p.name,
         variables |-> used \cup {p.name},
         substitution |->
            IF p.i = 1 THEN SubInsert(sub, name, p.name)
            ELSE IF p.i > 1 THEN SubInsert(sub, Suffixed(name, p.i - 2), p.name)
            ELSE sub]

\* ------------------------------------------------- the loop of flatten_program

\* The fields of a Flattener other than bits, with the local vector of
\* flatten_program and the panic message ("" while none was raised).
FlattenerState(used, sub, idx, out, panic) ==
    [variables |-> used, substitution |-> sub, next_var_idx |-> idx,
     out |-> out, panic |-> panic]

\* Flattener::new
New == FlattenerState({}, {}, 0, <<>>, "")

\* A reset that leaves the counter where the call before left it.
ResetKeepCounter(S) == FlattenerState({}, {}, S.next_var_idx, <<>>, "")

\* let mut statements_flattened = Vec::new(); self.variables = HashSet::new();
\* self.substitution = HashMap::new(); self.next_var_idx = 0;
Reset(S) == FlattenerState({}, {}, 0, <<>>, "")

\* A panic unwinds: the local vector is dropped, the fields stay as they are.
Unwind(S, f) == FlattenerState(S.variables, S.substitution, f.idx, <<>>, f.panic)

\* Statement::Return(expr)
FlattenReturn(S, expr) ==
    LET expr_subbed == ApplySubstitution(expr, S.substitution)
        rhs == FlattenExpression(S.out, S.next_var_idx, expr_subbed)
    IN  IF rhs.panic # "" THEN Unwind(S, rhs)
        ELSE FlattenerState(S.variables \cup {"~out"}, S.substitution, rhs.idx,
                            Append(rhs.out, Return(rhs.e)), "")

\* Statement::Definition(id, expr)
FlattenDefinition(S, id, expr) ==
    LET expr_subbed == ApplySubstitution(expr, S.substitution)
        rhs == FlattenExpression(S.out, S.next_var_idx, expr_subbed)
        u == UseVariable(S.variables, S.substitution, id)
    IN  IF rhs.panic # "" THEN Unwind(S, rhs)
        ELSE FlattenerState(u.variables, u.substitution, rhs.idx,
                            Append(rhs.out, Definition(u.name, rhs.e)), "")

\* Statement::Condition(expr1, expr2)
FlattenConstraint(S, expr1, expr2) ==
    LET expr1_subbed == ApplySubstitution(expr1, S.substitution)
        expr2_subbed == ApplySubstitution(expr2, S.substitution)
        lhs == IF IsLinear(expr1_subbed) THEN expr1_subbed ELSE expr2_subbed
        rhs == IF IsLinear(expr1_subbed)
               THEN FlattenExpression(S.out, S.next_var_idx, expr2_subbed)
               ELSE IF IsLinear(expr2_subbed)
               THEN FlattenExpression(S.out, S.next_var_idx, expr1_subbed)
               ELSE Panic(S.out, S.next_var_idx, "not yet implemented")
    IN  IF rhs.panic # "" THEN Unwind(S, rhs)
        ELSE FlattenerState(S.variables, S.substitution, rhs.idx,
                            Append(rhs.out, Condition(lhs, rhs.e)), "")

\* s @ Statement::Compiler(..) => statements_flattened.push(s)
FlattenCompiler(S, s) ==
    FlattenerState(S.variables, S.substitution, S.next_var_idx, Append(S.out, s), "")

\* The body of the loop over prog.statements.
FlattenStatement(S, s) ==
    CASE s.t = "Return" -> FlattenReturn(S, s.e)
      [] s.t = "Definition" -> FlattenDefinition(S, s.id, s.e)
      [] s.t = "Condition" -> FlattenConstraint(S, s.l, s.r)
      [] s.t = "Compiler" -> FlattenCompiler(S, s)

\* Prog { id: prog.id, arguments: prog.arguments, statements: statements_flattened }
Returned(S) == << [arguments |-> Arguments, statements |-> S.out] >>

RECURSIVE FlattenFrom(_, _, _)
FlattenFrom(S, stmts, k) ==
    IF S.panic # "" THEN <<>>
    ELSE IF k > Len(stmts) THEN Returned(S)
    ELSE FlattenFrom(FlattenStatement(S, stmts[k]), stmts, k + 1)

\* Flattener::flatten_program on a Flattener in state S: <<the Prog returned>>,
\* or <<>> when the call panics.
FlattenProgram(S, stmts) == FlattenFrom(Reset(S), stmts, 1)

\* ----------------------------------------------------------------- actions

Init ==
    /\ bits \in 1 .. MaxBits
    /\ variables = New.variables
    /\ substitution = New.substitution
    /\ next_var_idx = New.next_var_idx
    /\ prog = <<>>
    /\ statements_flattened = <<>>
    /\ pc = "idle"
    /\ result = <<>>
    /\ calls = 0

Current == FlattenerState(variables, substitution, next_var_idx, statements_flattened, "")

Become(S) ==
    /\ variables' = S.variables
    /\ substitution' = S.substitution
    /\ next_var_idx' = S.next_var_idx
    /\ statements_flattened' = S.out

\* flatten_program, up to its loop.
Begin ==
    /\ Become(Reset(Current))
    /\ prog' = <<>>
    /\ result' = <<>>
    /\ pc' = "running"
    /\ calls' = calls + 1
    /\ UNCHANGED bits

\* The first call on a new instance.
Call ==
    /\ pc = "idle"
    /\ Begin

\* A later call on the same instance.
CallAgain ==
    /\ pc \in {"returned", "panicked"}
    /\ calls < MaxCalls
    /\ Begin

\* The instance and the call after the loop body took statement s and left
\* the state S; a panic ends the call.
Advance(s, S) ==
    /\ Become(S)
    /\ prog' = Append(prog, s)
    /\ pc' = IF S.panic # "" THEN "panicked" ELSE pc
    /\ UNCHANGED <<bits, result, calls>>

\* One iteration of the loop, on statement s.
Iterate(s) == Advance(s, FlattenStatement(Current, s))

\* The loop has consumed every statement: the Prog is returned.
Finish ==
    /\ pc = "running"
    /\ pc' = "returned"
    /\ result' = Returned(Current)
    /\ UNCHANGED <<bits, variables, substitution, next_var_idx, prog,
                   statements_flattened, calls>>

\* ------------------------------------------------------- input programs

\* Identifiers the input programs define: a plain one, one of the suffixed
\* shape n_k, one of the shape of a synthesized symbol, and an argument.
ProgIds == {"x", "x_0"}

ProgLeaves == {NumberLiteral(1), VariableReference("x"), VariableReference("x_0")}

LtFive == IfElse(Cond("Lt", VariableReference("a"), NumberLiteral(5)),
                 NumberLiteral(1), NumberLiteral(0))

XCubed == Pow(VariableReference("x"), NumberLiteral(3))

XSquared == Mult(VariableReference("x"), VariableReference("x"))

ProgReturns == {VariableReference("x"), VariableReference("x_0"), VariableReference("a"),
                XCubed, LtFive}

ProgDefinitions ==
    {<<id, e>> : id \in ProgIds, e \in ProgLeaves}
        \cup {<<"sym_0", NumberLiteral(1)>>,
              <<"a", Add(VariableReference("a"), NumberLiteral(1))>>}

ProgConstraints == {<<VariableReference("x"), XSquared>>, <<XSquared, XSquared>>}

ProgHints == {<<"h", Div(NumberLiteral(1), Mult(XSquared, VariableReference("x")))>>}

\* One iteration of the loop of flatten_program, on a statement of each
\* kind, while the program read so far has fewer than n statements.
StmtReturn(exprs, n) ==
    /\ pc = "running"
    /\ Len(prog) < n
    /\ \E e \in exprs : Iterate(Return(e))

StmtDefinition(defs, n) ==
    /\ pc = "running"
    /\ Len(prog) < n
    /\ \E d \in defs : Iterate(Definition(d[1], d[2]))

StmtCondition(pairs, n) ==
    /\ pc = "running"
    /\ Len(prog) < n
    /\ \E c \in pairs : Iterate(Condition(c[1], c[2]))

StmtCompiler(hints, n) ==
    /\ pc = "running"
    /\ Len(prog) < n
    /\ \E h \in hints : Iterate(Compiler(h[1], h[2]))

\* Programs of up to MaxStmts statements, flattened by a new instance.
Next ==
    \/ Call
    \/ StmtReturn(ProgReturns, MaxStmts)
    \/ StmtDefinition(ProgDefinitions, MaxStmts)
    \/ StmtCondition(ProgConstraints, MaxStmts)
    \/ StmtCompiler(ProgHints, MaxStmts)
    \/ Finish

Spec == Init /\ [][Next]_vars

\* ------------------------------------------------- evaluation over the field

\* Whether e has a value under env: every variable is assigned and no
\* divisor is zero.
RECURSIVE Eval(_, _)
RECURSIVE CanEval(_, _)
CanEval(e, env) ==
    CASE e.t = "NumberLiteral" -> TRUE
      [] e.t = "VariableReference" -> e.n \in DOMAIN env
      [] e.t = "IfElse" ->
            /\ CanEval(e.c.l, env) /\ CanEval(e.c.r, env)
            /\ CanEval(e.l, env) /\ CanEval(e.r, env)
      [] e.t = "Div" ->
            /\ CanEval(e.l, env) /\ CanEval(e.r, env)
            /\ Eval(e.r, env) # 0
      [] e.t = "Pow" -> CanEval(e.l, env) /\ e.r.t = "NumberLiteral"
      [] OTHER -> CanEval(e.l, env) /\ CanEval(e.r, env)

\* The value of e in the field.
Eval(e, env) ==
    CASE e.t = "NumberLiteral" -> e.v
      [] e.t = "VariableReference" -> env[e.n]
      [] e.t = "Add" -> FAdd(Eval(e.l, env), Eval(e.r, env))
      [] e.t = "Sub" -> FSub(Eval(e.l, env), Eval(e.r, env))
      [] e.t = "Mult" -> FMul(Eval(e.l, env), Eval(e.r, env))
      [] e.t = "Div" -> FDiv(Eval(e.l, env), Eval(e.r, env))
      [] e.t = "Pow" -> FPow(Eval(e.l, env), e.r.v)
      [] e.t = "IfElse" ->
            IF CASE e.c.t = "Lt" -> Eval(e.c.l, env) < Eval(e.c.r, env)
                 [] e.c.t = "Eq" -> Eval(e.c.l, env) = Eval(e.c.r, env)
            THEN Eval(e.l, env) ELSE Eval(e.r, env)

\* The statements from the k-th on, run over the assignment st.env. A
\* Definition of an unassigned name assigns it; a Definition of an assigned
\* name, and a Condition, is an equation that must hold; a Compiler hint
\* assigns its name unless the assignment already chose a value for it.
RECURSIVE Run(_, _, _)
Run(stmts, k, st) ==
    IF k > Len(stmts) \/ ~st.ok THEN st
    ELSE LET s == stmts[k]
         IN CASE s.t = "Definition" ->
                    IF ~CanEval(s.e, st.env) THEN [st EXCEPT !.ok = FALSE]
                    ELSE IF s.id \in DOMAIN st.env
                    THEN Run(stmts, k + 1, [st EXCEPT !.ok = (st.env[s.id] = Eval(s.e, st.env))])
                    ELSE Run(stmts, k + 1, [st EXCEPT !.env = (s.id :> Eval(s.e, st.env)) @@ st.env])
              [] s.t = "Condition" ->
                    IF ~CanEval(s.l, st.env) \/ ~CanEval(s.r, st.env) THEN [st EXCEPT !.ok = FALSE]
                    ELSE Run(stmts, k + 1, [st EXCEPT !.ok = (Eval(s.l, st.env) = Eval(s.r, st.env))])
              [] s.t = "Compiler" ->
                    IF s.id \in DOMAIN st.env THEN Run(stmts, k + 1, st)
                    ELSE IF ~CanEval(s.e, st.env) THEN [st EXCEPT !.ok = FALSE]
                    ELSE Run(stmts, k + 1, [st EXCEPT !.env = (s.id :> Eval(s.e, st.env)) @@ st.env])
              [] s.t = "Return" ->
                    IF ~CanEval(s.e, st.env) THEN [st EXCEPT !.ok = FALSE]
                    ELSE Run(stmts, k + 1, [st EXCEPT !.env = ("~out" :> Eval(s.e, st.env)) @@ st.env])

\* The flattened statements run with the arguments a and b and the chosen
\* values `free` of the names no statement determines.
Witness(stmts, a, b, free) ==
    Run(stmts, 1, [env |-> free @@ ("a" :> a @@ "b" :> b), ok |-> TRUE])

\* ---------------------------------------------------------- gadget programs

LtAB == IfElse(Cond("Lt", VariableReference("a"), VariableReference("b")),
               NumberLiteral(1), NumberLiteral(0))

EqAB == IfElse(Cond("Eq", VariableReference("a"), VariableReference("b")),
               NumberLiteral(1), NumberLiteral(0))

GadgetReturns == {LtAB, LtFive, EqAB}

PowBases == {VariableReference("a"), NumberLiteral(2), NumberLiteral(3)}

GadgetDefinitions == {<<"y", Pow(base, NumberLiteral(k))>> : base \in PowBases, k \in 0 .. MaxExp}

\* One-statement programs that are a single gadget, at every bit-width.
NextGadget ==
    \/ Call
    \/ StmtReturn(GadgetReturns, 1)
    \/ StmtDefinition(GadgetDefinitions, 1)
    \/ Finish

SpecGadget == Init /\ [][NextGadget]_vars

\* ------------------------------------------------------------ gadget claims

Bool(p) == IF p THEN 1 ELSE 0

NoFree == [n \in {} |-> 0]

IsCompiler(s) == s.t = "Compiler"

IsConstraint(s) == s.t = "Condition"

\* The names defined as their own square: the digits of a LessThan gadget.
Digits(stmts) ==
    {stmts[k].id : k \in {j \in DOMAIN stmts :
        /\ stmts[j].t = "Definition"
        /\ stmts[j].e = Mult(VariableReference(stmts[j].id), VariableReference(stmts[j].id))}}

\* a - b fits bits two's-complement digits.
Representable(d) == -(2 ^ (bits - 1)) <= d /\ d <= 2 ^ (bits - 1) - 1

\* The program returns trueIndicator * 1 + falseIndicator * 0.
TrueName(stmts) == stmts[Len(stmts)].e.l.l.n

FalseName(stmts) == stmts[Len(stmts)].e.r.l.n

\* Some assignment of the digits satisfies the emitted statements, and every
\* one that does gives the indicators of a < b.
LtCase(stmts, a, b) ==
    LET sat == {d \in [Digits(stmts) -> {0, 1}] : Witness(stmts, a, b, d).ok}
    IN  /\ sat # {}
        /\ \A d \in sat :
              LET env == Witness(stmts, a, b, d).env
              IN  /\ env[TrueName(stmts)] = Bool(a < b)
                  /\ env[FalseName(stmts)] = FSub(1, env[TrueName(stmts)])
                  /\ env["~out"] = Bool(a < b)

\* C3: the LessThan gadget, for all a and b whose difference fits bits
\* two's-complement digits: the digits have an assignment satisfying the
\* recomposition of a - b, and every such assignment makes the true indicator
\* 1 exactly when a < b and the false indicator 1 - true.
C3_LessThanGadget ==
    pc = "returned" =>
        /\ prog = <<Return(LtAB)>> =>
              \A a \in Field, b \in Field :
                  Representable(a - b) => LtCase(statements_flattened, a, b)
        /\ prog = <<Return(LtFive)>> =>
              \A a \in Field :
                  Representable(a - 5) => LtCase(statements_flattened, a, 5)

\* The terms of a sum of digits and digit * literal products, in order.
RECURSIVE Terms(_)
Terms(e) ==
    CASE e.t = "Add" -> Terms(e.l) \o Terms(e.r)
      [] e.t = "VariableReference" -> << <<e.n, 1>> >>
      [] e.t = "Mult" /\ e.l.t = "VariableReference" /\ e.r.t = "NumberLiteral" ->
            << <<e.l.n, e.r.v>> >>
      [] OTHER -> << <<"", 0>> >>

\* C9: for every bit-width, the LessThan gadget emits one self-square
\* definition per digit 0..bits-1, and the recomposition assigned to the diff
\* symbol has exactly one term per digit: +2^i for digit i <= bits-2 and
\* -2^(bits-1) for digit bits-1.
C9_RecompositionWeights ==
    (pc = "returned" /\ prog = <<Return(LtAB)>>) =>
        LET out == statements_flattened
            diff == out[3].id
            rec == out[4 + bits]
        IN  /\ \A i \in 0 .. bits - 1 :
                  out[4 + i] = Definition(BitName(diff, i),
                                          Mult(VariableReference(BitName(diff, i)),
                                               VariableReference(BitName(diff, i))))
            /\ Cardinality(Digits(out)) = bits
            /\ rec.t = "Definition" /\ rec.id = diff
            /\ Len(Terms(rec.e)) = bits
            /\ {Terms(rec.e)[k] : k \in DOMAIN Terms(rec.e)}
                  = {<<BitName(diff, i), FPow(2, i)>> : i \in 0 .. bits - 2}
                      \cup {<<BitName(diff, bits - 1), FSub(0, FPow(2, bits - 1))>>}

\* C5: Definition(y, Pow(base, k)) for k in 2..5 and a variable or literal
\* base flattens to exactly k-1 Definitions of a Mult, which assign y the
\* value base^k.
C5_PowUnrolled ==
    \A base \in PowBases, k \in 2 .. 5 :
        (pc = "returned" /\ prog = <<Definition("y", Pow(base, NumberLiteral(k)))>>) =>
            /\ Cardinality({i \in DOMAIN statements_flattened :
                    /\ statements_flattened[i].t = "Definition"
                    /\ statements_flattened[i].e.t = "Mult"}) = k - 1
            /\ \A v \in Field :
                  LET r == Witness(statements_flattened, v, 0, NoFree)
                  IN  /\ r.ok
                      /\ r.env["y"] = FPow(IF base.t = "VariableReference" THEN v ELSE base.v, k)

\* C4: the Equal gadget, for all a and b with c = a - b: the two hints give a
\* witness satisfying the three emitted constraints c*d = 0, d*(1-d) = 0 and
\* (c-d)*w = 1; every d and w satisfying them has d = 1 exactly when a = b and
\* d = 0 otherwise; the pair returned is (d, 1-d).
C4_EqualGadget ==
    (pc = "returned" /\ prog = <<Return(EqAB)>>) =>
        LET out == statements_flattened
            hints == SelectSeq(out, IsCompiler)
            dn == hints[1].id
            wn == hints[2].id
        IN  /\ Len(hints) = 2
            /\ Len(SelectSeq(out, IsConstraint)) = 3
            /\ TrueName(out) = dn
            /\ \A a \in Field, b \in Field :
                  LET c == FSub(a, b)
                      h == Witness(out, a, b, NoFree)
                  IN  /\ h.ok
                      /\ h.env[dn] = Bool(c = 0)
                      /\ h.env[wn] = FDiv(1, FSub(c, h.env[dn]))
                      /\ \A d \in Field, w \in Field :
                            LET r == Witness(out, a, b, dn :> d @@ wn :> w)
                            IN  /\ r.ok <=> /\ FMul(c, d) = 0
                                            /\ FMul(d, FSub(1, d)) = 0
                                            /\ FMul(FSub(c, d), w) = 1
                                /\ r.ok => /\ d = Bool(a = b)
                                           /\ r.env[TrueName(out)] = d
                                           /\ r.env[FalseName(out)] = FSub(1, d)

\* The Equal gadget has been emitted and returned.
C4_Witness ==
    /\ pc = "returned"
    /\ prog = <<Return(EqAB)>>
    /\ Len(SelectSeq(statements_flattened, IsConstraint)) = 3

\* ------------------------------------------------------ expression programs

A == VariableReference("a")

Two == NumberLiteral(2)

ExprLeaves == {A, Two}

Binary(ops, ls, rs) == {[t |-> op, l |-> l, r |-> r] : op \in ops, l \in ls, r \in rs}

\* Pow and conditional-select shapes, supported and not.
Specials ==
    { Pow(A, NumberLiteral(1)), Pow(A, Two), Pow(A, NumberLiteral(3)), Pow(Two, Two),
      Pow(Add(A, Two), Two), Pow(A, A),
      IfElse(Cond("Lt", A, Two), A, Two),
      IfElse(Cond("Eq", A, Two), Two, A),
      IfElse(Cond("Gt", A, Two), A, Two) }

Depth1 == ExprLeaves \cup Binary(BinaryOps, ExprLeaves, ExprLeaves) \cup Specials

Depth2 == Binary(BinaryOps, Depth1, Depth1)

\* A Sub that is affine only once its operand has been bound to a symbol.
DeepSubs == {Sub(Mult(A, A), A), Sub(A, Mult(A, A))}

Depth3 == Binary({"Mult", "Div"}, DeepSubs, Depth1) \cup Binary({"Mult", "Div"}, Depth1, DeepSubs)

NestedPows == {Pow(b, x) : b \in Depth1, x \in {Two, NumberLiteral(0), Pow(A, Two)}}

NestedSelects ==
    {IfElse(Cond(k, p, Two), l, A) : k \in {"Lt", "Eq", "Ge"}, p \in Depth1, l \in Depth1}

ExprReturns == Depth1 \cup Depth2 \cup Depth3 \cup NestedPows \cup NestedSelects

ExprDefinitions == {<<"y", e>> : e \in Depth1}

ExprConstraints == {<<l, e>> : l \in {A, Sub(A, Two), Mult(A, A)}, e \in Depth1}

ExprHints == {<<"h", e>> : e \in {Mult(Mult(A, A), A), Pow(A, A), Div(Two, A)}}

\* One-statement programs over nested expressions, at every bit-width.
NextExpr ==
    \/ Call
    \/ StmtReturn(ExprReturns, 1)
    \/ StmtDefinition(ExprDefinitions, 1)
    \/ StmtCondition(ExprConstraints, 1)
    \/ StmtCompiler(ExprHints, 1)
    \/ Finish

SpecExpr == Init /\ [][NextExpr]_vars

\* -------------------------------------------------------- expression claims

\* The expressions of a statement that the pass constrains.
Sides(s) ==
    CASE s.t \in {"Return", "Definition"} -> {s.e}
      [] s.t = "Condition" -> {s.l, s.r}
      [] s.t = "Compiler" -> {}

\* Every node of e, e included.
RECURSIVE Nodes(_)
Nodes(e) ==
    CASE IsLeaf(e) -> {e}
      [] e.t = "IfElse" ->
            {e} \cup Nodes(e.c.l) \cup Nodes(e.c.r) \cup Nodes(e.l) \cup Nodes(e.r)
      [] OTHER -> {e} \cup Nodes(e.l) \cup Nodes(e.r)

\* A literal, a variable reference, or an Add/Sub combination of them.
RECURSIVE PlainSum(_)
PlainSum(e) ==
    CASE IsLeaf(e) -> TRUE
      [] e.t \in {"Add", "Sub"} -> PlainSum(e.l) /\ PlainSum(e.r)
      [] OTHER -> FALSE

\* C2 as stated: in every output statement, both operands of every Mult or
\* Div are a literal, a variable reference or an Add/Sub combination of
\* literals and variable references.
C2_PlainOperands ==
    \A k \in DOMAIN statements_flattened :
        LET s == statements_flattened[k]
            es == IF s.t = "Compiler" THEN {s.e} ELSE Sides(s)
        IN  \A e \in es : \A n \in Nodes(e) :
                n.t \in {"Mult", "Div"} => PlainSum(n.l) /\ PlainSum(n.r)

\* C2, amended: in every output statement that is not a Hint, no node is a Pow
\* or a conditional-select, and both operands of every Mult or Div are affine
\* as is_linear has it: a literal, a variable reference, an Add/Sub of affine
\* terms, or a product or quotient of two leaves of which one is a literal.
C2_AffineOperands ==
    \A k \in DOMAIN statements_flattened :
        \A e \in Sides(statements_flattened[k]) : \A n \in Nodes(e) :
            /\ n.t \notin {"Pow", "IfElse"}
            /\ n.t \in {"Mult", "Div"} => IsLinear(n.l) /\ IsLinear(n.r)

\* A product of two bound symbols has been emitted for a nested product.
C2_Witness ==
    /\ pc = "returned"
    /\ prog = <<Return(Mult(Mult(A, A), Div(A, A)))>>
    /\ statements_flattened[Len(statements_flattened)].e
          = Mult(VariableReference("sym_0"), VariableReference("sym_1"))

\* e holds a Pow whose exponent is not a literal above 1 or whose base is not
\* a leaf, or a condition other than Lt and Eq.
Unsupported(e) ==
    \E n \in Nodes(e) :
        \/ n.t = "Pow" /\ ~(n.r.t = "NumberLiteral" /\ n.r.v > 1)
        \/ n.t = "Pow" /\ ~IsLeaf(n.l)
        \/ n.t = "IfElse" /\ n.c.t \notin {"Lt", "Eq"}

\* C7: flatten_program aborts and returns no program, partial or whole, when a
\* Return, Definition or ConstraintEquality it processes holds an unsupported
\* Pow or condition, or is a ConstraintEquality with two non-affine sides.
C7_Aborts ==
    \A k \in DOMAIN prog :
        LET s == prog[k]
        IN  (\/ s.t \in {"Return", "Definition"} /\ Unsupported(s.e)
             \/ s.t = "Condition" /\ (Unsupported(s.l) \/ Unsupported(s.r))
             \/ s.t = "Condition"
                   /\ ~IsLinear(ApplySubstitution(s.l, substitution))
                   /\ ~IsLinear(ApplySubstitution(s.r, substitution)))
            => /\ pc = "panicked"
               /\ result = <<>>
               /\ statements_flattened = <<>>

\* Pow(a, 1) under a sum whose other operand had already been bound.
C7_Witness ==
    /\ pc = "panicked"
    /\ prog = <<Return(Add(Mult(A, A), Pow(A, NumberLiteral(1))))>>

AffineSub(e) == e.t = "Sub" /\ IsLinear(e)

\* The single expression of a one-statement Return program that did not panic.
GivenProduct(kind) ==
    /\ pc \in {"running", "returned"}
    /\ Len(prog) = 1
    /\ prog[1].t = "Return"
    /\ prog[1].e.t = kind

\* What the two operands of the given node flatten to, left first.
LeftFlattened == FlattenExpression(<<>>, 0, prog[1].e.l)

RightFlattened == FlattenExpression(LeftFlattened.out, LeftFlattened.idx, prog[1].e.r)

ReturnedExpr == statements_flattened[Len(statements_flattened)].e

Binds(name, e) ==
    \E k \in DOMAIN statements_flattened : statements_flattened[k] = Definition(name, e)

\* Each operand of the Mult returned that came from an affine Sub is the
\* counter-named symbol a Definition binds that Sub to.
SubOperandsBound ==
    LET l == LeftFlattened.e
        r == RightFlattened.e
        n == RightFlattened.idx
        m == IF IsLinear(l) /\ l.t # "Sub" THEN n ELSE n + 1
    IN  /\ AffineSub(l) => ReturnedExpr.l = VariableReference(Sym(n)) /\ Binds(Sym(n), l)
        /\ AffineSub(r) => ReturnedExpr.r = VariableReference(Sym(m)) /\ Binds(Sym(m), r)

\* An affine Sub operand of the Div returned stays inline, and the Div appends
\* one Definition for each operand that is not affine and no other.
SubOperandsInline ==
    LET l == LeftFlattened.e
        r == RightFlattened.e
    IN  /\ AffineSub(l) => ReturnedExpr.l = l
        /\ AffineSub(r) => ReturnedExpr.r = r
        /\ Len(statements_flattened)
              = Len(RightFlattened.out) + Bool(~IsLinear(l)) + Bool(~IsLinear(r)) + 1

\* C10 as stated: given a Mult one of whose operands is or flattens to an
\* affine Sub, flatten_expression binds the Sub to sym_N and returns a Mult of
\* the reference, so no Mult returned has a Sub operand; given a Div, no
\* Definition is appended for the Sub, which stays inline.
C10_SubAlwaysBound ==
    /\ GivenProduct("Mult") =>
          /\ ReturnedExpr.t = "Mult"
          /\ SubOperandsBound
          /\ ReturnedExpr.l.t # "Sub" /\ ReturnedExpr.r.t # "Sub"
    /\ GivenProduct("Div") => ReturnedExpr.t = "Div" /\ SubOperandsInline

\* C10, amended: a Mult with a non-affine operand has each operand that is or
\* flattens to an affine Sub bound to the counter's sym_N and replaced by the
\* reference, so it is returned without a Sub operand; a Mult whose operands
\* are both affine is returned as given, nothing appended; a Div keeps an
\* affine Sub operand inline and no Definition binds it.
C10_SubBoundUnlessFlattened ==
    /\ (GivenProduct("Mult") /\ ~IsFlattened(prog[1].e)) =>
          /\ ReturnedExpr.t = "Mult"
          /\ SubOperandsBound
          /\ ReturnedExpr.l.t # "Sub" /\ ReturnedExpr.r.t # "Sub"
    /\ (GivenProduct("Mult") /\ IsFlattened(prog[1].e)) =>
          statements_flattened = <<Return(prog[1].e)>>
    /\ GivenProduct("Div") => ReturnedExpr.t = "Div" /\ SubOperandsInline

\* A Mult of a Sub that became affine by binding a product, and of a product.
C10_Witness ==
    /\ pc = "returned"
    /\ prog = <<Return(Mult(Sub(Mult(A, A), A), Mult(A, A)))>>
    /\ Binds("sym_1", Sub(VariableReference("sym_0"), A))
    /\ ReturnedExpr = Mult(VariableReference("sym_1"), VariableReference("sym_2"))

\* ---------------------------------------------------------- program claims

\* C1: every Definition target name in the output is the target of exactly
\* one Definition, for programs with LessThan and Equal conditions and
\* identifiers of the shape sym_N included.
C1_UniqueTargets ==
    \A i \in DOMAIN statements_flattened, j \in DOMAIN statements_flattened :
        (/\ statements_flattened[i].t = "Definition"
         /\ statements_flattened[j].t = "Definition"
         /\ statements_flattened[i].id = statements_flattened[j].id) => i = j

\* Every statement read so far is a Return or a Definition of a leaf, so the
\* k-th output statement is the k-th input statement flattened.
LeafProgram ==
    \A k \in DOMAIN prog : prog[k].t \in {"Return", "Definition"} /\ IsLeaf(prog[k].e)

\* The used-name set before the k-th statement.
UsedBefore(k) ==
    {statements_flattened[j].id :
        j \in {i \in 1 .. k - 1 : statements_flattened[i].t = "Definition"}}
      \cup {"~out" : j \in {i \in 1 .. k - 1 : statements_flattened[i].t = "Return"}}

\* The first of n, n_0, n_1, ... that is not in used.
FirstUnused(used, n) ==
    IF n \notin used THEN n
    ELSE Suffixed(n, CHOOSE i \in 0 .. Cardinality(used) :
                        /\ Suffixed(n, i) \notin used
                        /\ \A j \in 0 .. i - 1 : Suffixed(n, j) \in used)

\* The statements before the k-th that define identifier n.
DefinitionsOf(k, n) == {j \in 1 .. k - 1 : prog[j].t = "Definition" /\ prog[j].id = n}

Latest(S) == CHOOSE j \in S : \A i \in S : i <= j

\* C6: use_variable returns the first of n, n_0, n_1, ... not in the
\* used-name set, a name the set did not hold; and a later Return or
\* Definition right-hand side that references n is rewritten to the physical
\* name of the most recent definition of n, also when the program defines n
\* three times or defines identifiers of the shape n_k.
C6_Renaming ==
    (pc \in {"running", "returned"} /\ LeafProgram) =>
        \A k \in DOMAIN prog :
            /\ prog[k].t = "Definition" =>
                  /\ statements_flattened[k].id \notin UsedBefore(k)
                  /\ statements_flattened[k].id = FirstUnused(UsedBefore(k), prog[k].id)
            /\ (prog[k].e.t = "VariableReference" /\ DefinitionsOf(k, prog[k].e.n) # {}) =>
                  statements_flattened[k].e =
                      VariableReference(statements_flattened[Latest(DefinitionsOf(k, prog[k].e.n))].id)

\* The names in the argument list of the program.
ArgumentNames == {Arguments[i] : i \in DOMAIN Arguments}

\* The source Definition that reassigns the argument a: a = a + 1.
ReassignA == Definition("a", Add(VariableReference("a"), NumberLiteral(1)))

\* C11: no Definition of the output targets a name of the argument list; a
\* first statement a = a + 1 is emitted under a name other than a with the
\* right-hand side a + 1 still on the argument, and a Return of a right
\* after it refers to that new name.
C11_ArgumentsNotTargets ==
    pc \in {"running", "returned"} =>
        /\ \A i \in DOMAIN statements_flattened :
              statements_flattened[i].t = "Definition" =>
                  statements_flattened[i].id \notin ArgumentNames
        /\ (Len(prog) >= 1 /\ prog[1] = ReassignA) =>
              /\ statements_flattened[1].t = "Definition"
              /\ statements_flattened[1].id # "a"
              /\ statements_flattened[1].e = ReassignA.e
              /\ (Len(prog) >= 2 /\ prog[2] = Return(VariableReference("a"))) =>
                    statements_flattened[2] =
                        Return(VariableReference(statements_flattened[1].id))

\* ------------------------------------------------------------------- reuse

ReuseDefinitions == {<<"x", NumberLiteral(1)>>, <<"x", XCubed>>}

ReuseReturns == {LtFive, Pow(VariableReference("x"), NumberLiteral(1))}

\* Programs flattened one after another by the same instance.
NextReuse ==
    \/ Call
    \/ CallAgain
    \/ StmtDefinition(ReuseDefinitions, MaxStmts)
    \/ StmtReturn(ReuseReturns, MaxStmts)
    \/ StmtCompiler(ProgHints, MaxStmts)
    \/ Finish

SpecReuse == Init /\ [][NextReuse]_vars

\* C8: whatever calls came before on the instance, a call starts from an
\* empty used-name set, an empty substitution table and counter 0, and what it
\* returns for the program is what a newly constructed Flattener of the same
\* bit-width returns, synthesized and renamed names included.
C8_SameAsNew ==
    /\ (pc = "running" /\ prog = <<>>) =>
          variables = {} /\ substitution = {} /\ next_var_idx = 0
    /\ pc \in {"returned", "panicked"} => result = FlattenProgram(New, prog)

\* A second call has returned a program with a synthesized symbol and a
\* renamed identifier.
C8_Witness ==
    /\ calls = 2
    /\ pc = "returned"
    /\ result[1].statements =
          << Definition("x", NumberLiteral(1)),
             Definition("sym_0", XSquared),
             Definition("x_0", Mult(VariableReference("sym_0"), VariableReference("x"))) >>

====
